---- MODULE Spec2Model ----
(***************************************************************************)
(* Model of the Multi-User Google Sheets MCP server.                       *)
(*   tokens.py : load_tokens / save_tokens over the file tokens.json       *)
(*   main.py   : the OAuth callback (google_callback), credential          *)
(*               resolution (get_sheets_service), the three sheet tools    *)
(*               and the /mcp dispatcher (mcp_handler); the redirect to    *)
(*               the identity provider (google_auth) and health.           *)
(* The file system holds the token file and one temporary file per running *)
(* save_tokens.  Request handlers run concurrently; a handler is split     *)
(* into steps exactly where it touches the file system or a remote         *)
(* service.                                                                *)
(***************************************************************************)
EXTENDS Integers, Sequences, FiniteSets, TLC

\* ---------------------------------------------------------------- bounds
\* Number of callback requests served concurrently.
NumCallbacks == 2
\* Total number of callback requests accepted in one run.
MaxCallbacks == 2

\* ------------------------------------------------------------ value sets
\* Python's None; also the JSON null of an absent refresh token.
None == "None"
\* user ids a client can send (query parameter `state`, meta.user_id).
UserIds == {"u1"}
\* the sentinel used when the client sends none.
DefaultUser == "default"
\* every key the token mapping can have, in the order they are serialized.
KeyOrder == <<"default", "u1">>
Keys == {KeyOrder[i] : i \in 1..Len(KeyOrder)}
\* values the identity provider can hand out.
AccessTokens == {"a1", "a2"}
RefreshTokens == {"r1"}

CallbackIds == 1..NumCallbacks

\* BASE_URL, the externally reachable address of the server.
BASE_URL == "https://mcp.example"

\* ------------------------------------------------------- /mcp requests
\* The request body is a JSON object.  A string-valued key that is absent
\* is None here; an object-valued key that is absent is Absent.
Absent == [absent |-> TRUE]
\* The empty dict {}.
EmptyMap == <<>>
Methods == {"initialize", "tools/list", "tools/call", "unknown", None}
RequestIds == {"id-1", None}
ToolNames == {"sheets.read_range", "sheets.write_range", "sheets.append_row"}
ArgKeys == {"spreadsheet_id", "range", "values"}
\* the value a client sends under each argument key.
ArgValue(k) ==
  IF k = "spreadsheet_id" THEN "S1"
  ELSE IF k = "range" THEN "A1:B2"
  ELSE <<"x", "y">>
\* params.arguments: absent, complete, or lacking one key.
Arguments ==
  {Absent} \cup {[k \in S |-> ArgValue(k)] :
                   S \in {ArgKeys} \cup {ArgKeys \ {k} : k \in ArgKeys}}
\* params: absent, without a name, or naming a tool (known or not).
Params ==
  {Absent} \cup {[name |-> None, arguments |-> Absent]}
           \cup {[name |-> n, arguments |-> a] :
                   n \in ToolNames, a \in Arguments}
           \cup {[name |-> "sheets.other", arguments |-> a] :
                   a \in {Absent, [k \in ArgKeys |-> ArgValue(k)]}}
\* The payloads a client can send: a JSON object with method, id,
\* meta.user_id and params, each optional and of its JSON-RPC type when
\* present.  params is only read under tools/call and is left out for the
\* other methods.
Payloads ==
  {[method |-> m, id |-> i, user_id |-> u, params |-> p] :
     m \in Methods \ {"tools/call"}, i \in RequestIds,
     u \in UserIds \cup {None}, p \in {Absent}}
  \cup
  {[method |-> m, id |-> i, user_id |-> u, params |-> p] :
     m \in {"tools/call"}, i \in RequestIds,
     u \in UserIds \cup {None}, p \in Params}
\* what the spreadsheet service can answer to values.get: a body without
\* the "values" key or one with rows.
ReadBodies == {EmptyMap, [values |-> <<<<"x", "y">>>>]}

\* ------------------------------------------------------------- tokens.py
\* json.dump(tokens, tmp, indent=2): the text is produced as a sequence of
\* chunks: the opening brace, one chunk per key, the closing brace.
RECURSIVE SerializeFrom(_, _)
SerializeFrom(tokens, i) ==
  IF i > Len(KeyOrder) THEN <<[kind |-> "close"]>>
  ELSE (IF KeyOrder[i] \in DOMAIN tokens
          THEN <<[kind |-> "entry", key |-> KeyOrder[i],
                  token |-> tokens[KeyOrder[i]].token,
                  refresh_token |-> tokens[KeyOrder[i]].refresh_token]>>
          ELSE <<>>)
       \o SerializeFrom(tokens, i + 1)

Serialize(tokens) == <<[kind |-> "open"]>> \o SerializeFrom(tokens, 1)

\* json.loads succeeds only on a complete text: opening brace, entries,
\* closing brace.  Anything else raises JSONDecodeError.
WellFormed(content) ==
  /\ Len(content) >= 2
  /\ content[1].kind = "open"
  /\ content[Len(content)].kind = "close"
  /\ \A i \in 2..(Len(content) - 1) : content[i].kind = "entry"

\* json.loads of a well-formed text: the dict of its entries (the last
\* entry of a key wins).
Parse(content) ==
  LET idx == 2..(Len(content) - 1)
      ks == {content[i].key : i \in idx}
      last(k) == CHOOSE i \in idx :
                   /\ content[i].key = k
                   /\ \A j \in idx : content[j].key = k => j <= i
  IN [k \in ks |-> [token |-> content[last(k)].token,
                    refresh_token |-> content[last(k)].refresh_token]]

\* Mutant of load_tokens: records without a refresh token are left out of
\* the mapping.
load_tokens_SkipIncomplete(f) ==
  LET m == IF ~f.exists THEN EmptyMap
           ELSE IF WellFormed(f.content) THEN Parse(f.content)
           ELSE EmptyMap
  IN [k \in {j \in DOMAIN m : m[j].refresh_token # None} |-> m[k]]

\* load_tokens() applied to the token file f = [exists, content].
load_tokens(f) ==
  IF ~f.exists THEN EmptyMap
  ELSE IF WellFormed(f.content) THEN Parse(f.content)
  ELSE EmptyMap

\* A token file that does not exist.
NoFile == [exists |-> FALSE, content |-> <<>>]

\* A chunk of bytes that are not UTF-8 text.
Undecodable == [kind |-> "bytes"]

\* read_text(encoding="utf-8"), line 23, decodes the whole content: it
\* succeeds only when no chunk is undecodable.
Decodable(content) ==
  \A i \in 1..Len(content) : content[i].kind # "bytes"

\* load_tokens() raises on the token file f: read_text raises
\* UnicodeDecodeError inside the try of line 22, and line 24 catches
\* json.JSONDecodeError only.
LoadRaises(f) == f.exists /\ ~Decodable(f.content)

\* ----------------------------------------------------------------- state
VARIABLES
  file,      \* tokens.json: [exists, content]
  tmp,       \* tmp[c]: content of the temporary file of callback c's save
  cb,        \* cb[c]: locals and position of callback request c
  started,   \* number of callback requests accepted so far
  mcp        \* locals and position of the request being served by the
             \* worker of /mcp, /auth/google and /

vars == <<file, tmp, cb, started, mcp>>

\* A callback worker that serves no request.
IdleCb == [pc |-> "idle", user_id |-> None, token |-> None,
           refresh_token |-> None, existing_refresh |-> None,
           tokens |-> EmptyMap]

\* The /mcp worker before its first request.
IdleMcp == [pc |-> "idle", req |-> Absent, user_id |-> None,
            consulted |-> FALSE, creds |-> Absent, calls |-> <<>>,
            status |-> 0, response |-> Absent, exc |-> None]

Init ==
  /\ file = NoFile
  /\ tmp = [c \in CallbackIds |-> <<>>]
  /\ cb = [c \in CallbackIds |-> IdleCb]
  /\ started = 0
  /\ mcp = IdleMcp

\* ------------------------------------------------- main.py: google_callback
\* Positions of a callback inside save_tokens (after load, before replace).
InSave == {"create", "write", "rename"}

\* Positions of a callback worker that can take the next request.
CbAtRest == {"idle", "done", "raised", "interrupted"}

\* Line 84 raising: the code exchange failed, the request ends there.
CbFetchFails(c) ==
  /\ cb[c].pc \in CbAtRest
  /\ started < MaxCallbacks
  /\ cb' = [cb EXCEPT ![c] = [IdleCb EXCEPT !.pc = "raised"]]
  /\ started' = started + 1
  /\ UNCHANGED <<file, tmp, mcp>>

\* Mutant of ExistingRefresh: the lookup misses the stored record.
ExistingRefresh_Missed(tokens, user_id) == None

\* tokens.get(user_id, {}).get("refresh_token")
ExistingRefresh(tokens, user_id) ==
  IF user_id \in DOMAIN tokens THEN tokens[user_id].refresh_token ELSE None

\* Mutant of SetKey: the dict is replaced by one holding the user's record
\* only.
SetKey_OnlyKey(tokens, user_id, rec) == [k \in {user_id} |-> rec]

\* Mutant of SetKey: the record is stored under the default user's key.
SetKey_UnderDefault(tokens, user_id, rec) ==
  [k \in DOMAIN tokens \cup {DefaultUser} |->
     IF k = DefaultUser THEN rec ELSE tokens[k]]

\* tokens[user_id] = {...}: the dict with one key set.
SetKey(tokens, user_id, rec) ==
  [k \in DOMAIN tokens \cup {user_id} |->
     IF k = user_id THEN rec ELSE tokens[k]]

\* Mutant of RefreshOr: the new value is stored even when it is None.
RefreshOr_Overwrite(new, existing) == new

\* `flow.credentials.refresh_token or existing_refresh`
RefreshOr(new, existing) == IF new # None THEN new ELSE existing

\* Lines 83-94.  The code exchange succeeded: flow.credentials holds an
\* access token and possibly no refresh token; user_id is the `state` query
\* parameter, "default" when absent.  The callback then loads the mapping,
\* reads the existing refresh token and sets the user's record.  (The
\* exchange touches only the identity provider, so it is one step with the
\* load.)  When load_tokens raises, the request ends with that exception.
CbLoad(c) ==
  /\ cb[c].pc \in CbAtRest
  /\ started < MaxCallbacks
  /\ \E state \in UserIds \cup {None}, t \in AccessTokens,
        r \in RefreshTokens \cup {None} :
       LET user_id == IF state = None THEN DefaultUser ELSE state
           tokens == load_tokens(file)
           existing == ExistingRefresh(tokens, user_id)
       IN cb' = [cb EXCEPT ![c] =
                   IF LoadRaises(file) THEN [IdleCb EXCEPT !.pc = "raised"]
                   ELSE
                   [pc |-> "create", user_id |-> user_id, token |-> t,
                    refresh_token |-> r, existing_refresh |-> existing,
                    tokens |-> SetKey(tokens, user_id,
                                      [token |-> t,
                                       refresh_token |->
                                         RefreshOr(r, existing)])]]
  /\ started' = started + 1
  /\ UNCHANGED <<file, tmp, mcp>>

\* Mutant of CbCreateTmp: save_tokens opens the token file itself for
\* writing, which truncates it.
CbCreateTmp_InPlace(c) ==
  /\ cb[c].pc = "create"
  /\ file' = [exists |-> TRUE, content |-> <<>>]
  /\ tmp' = [tmp EXCEPT ![c] = <<>>]
  /\ cb' = [cb EXCEPT ![c].pc = "write"]
  /\ UNCHANGED <<started, mcp>>

\* save_tokens lines 34-41: a fresh, empty temporary file is created.
CbCreateTmp(c) ==
  /\ cb[c].pc = "create"
  /\ tmp' = [tmp EXCEPT ![c] = <<>>]
  /\ cb' = [cb EXCEPT ![c].pc = "write"]
  /\ UNCHANGED <<file, started, mcp>>

\* save_tokens line 42: the next chunk of the serialized mapping reaches the
\* temporary file; after the last one the file is closed.
CbWrite(c) ==
  /\ cb[c].pc = "write"
  /\ LET text == Serialize(cb[c].tokens)
         n == Len(tmp[c]) + 1
     IN /\ tmp' = [tmp EXCEPT ![c] = Append(tmp[c], text[n])]
        /\ cb' = [cb EXCEPT ![c].pc = IF n = Len(text) THEN "rename"
                                      ELSE "write"]
  /\ UNCHANGED <<file, started, mcp>>

\* Mutant of CbRename: save_tokens merges its record into what is on disk.
CbRename_Merge(c) ==
  /\ cb[c].pc = "rename"
  /\ file' = [exists |-> TRUE,
              content |-> Serialize(SetKey(load_tokens(file), cb[c].user_id,
                                           cb[c].tokens[cb[c].user_id]))]
  /\ tmp' = [tmp EXCEPT ![c] = <<>>]
  /\ cb' = [cb EXCEPT ![c].pc = "done", ![c].tokens = EmptyMap]
  /\ UNCHANGED <<started, mcp>>

\* Mutant of CbRename: the replace is a copy that can stop short of the
\* last chunk.
CbRename_Partial(c) ==
  /\ cb[c].pc = "rename"
  /\ \E n \in 1..Len(tmp[c]) :
       file' = [exists |-> TRUE, content |-> SubSeq(tmp[c], 1, n)]
  /\ tmp' = [tmp EXCEPT ![c] = <<>>]
  /\ cb' = [cb EXCEPT ![c].pc = "done", ![c].tokens = EmptyMap]
  /\ UNCHANGED <<started, mcp>>

\* save_tokens line 45: the temporary file replaces the token file in one
\* step; lines 95-97: the callback returns and its `tokens` dict is dropped.
CbRename(c) ==
  /\ cb[c].pc = "rename"
  /\ file' = [exists |-> TRUE, content |-> tmp[c]]
  /\ tmp' = [tmp EXCEPT ![c] = <<>>]
  /\ cb' = [cb EXCEPT ![c].pc = "done", ![c].tokens = EmptyMap]
  /\ UNCHANGED <<started, mcp>>

\* save_tokens interrupted before line 45 (an I/O error while creating or
\* writing the temporary file, or the worker being stopped): the request
\* ends.  The temporary file (delete=False) stays behind under a name
\* nothing opens again, so it leaves the model.
CbInterrupt(c) ==
  /\ cb[c].pc \in InSave
  /\ cb' = [cb EXCEPT ![c] = [IdleCb EXCEPT !.pc = "interrupted"]]
  /\ tmp' = [tmp EXCEPT ![c] = <<>>]
  /\ UNCHANGED <<file, started, mcp>>

\* ------------------------------------------------ main.py: mcp_handler
\* Mutant of get_user_id: the request's meta.user_id is ignored.
get_user_id_AlwaysDefault(payload) == DefaultUser

\* get_user_id: payload.get("meta", {}).get("user_id", "default")
get_user_id(payload) ==
  IF payload.user_id = None THEN DefaultUser ELSE payload.user_id

\* Mutant of auth_error: the recovery URL is built for the default user.
auth_error_DefaultUrl(id_, user_id) ==
  [jsonrpc |-> "2.0", id |-> id_,
   error |-> [code |-> 401,
              message |-> <<"Google Sheets not connected for user '",
                            user_id, "'. Visit ", BASE_URL,
                            "/auth/google?user_id=", DefaultUser>>]]

\* auth_error(id_, user_id), lines 55-63.  The message is the f-string's
\* parts in order.
auth_error(id_, user_id) ==
  [jsonrpc |-> "2.0", id |-> id_,
   error |-> [code |-> 401,
              message |-> <<"Google Sheets not connected for user '",
                            user_id, "'. Visit ", BASE_URL,
                            "/auth/google?user_id=", user_id>>]]

\* Lines 198-207.
InitializeResponse(id_) ==
  [jsonrpc |-> "2.0", id |-> id_,
   result |-> [serverInfo |-> [name |-> "Multi-User Google Sheets MCP",
                               version |-> "0.1.0"]]]

\* Mutant of ToolsListResponse: the catalog lacks the append capability.
ToolsListResponse_TwoTools(id_) ==
  [jsonrpc |-> "2.0", id |-> id_,
   result |-> [tools |->
     <<[name |-> "sheets.read_range",
        required |-> <<"spreadsheet_id", "range">>],
       [name |-> "sheets.write_range",
        required |-> <<"spreadsheet_id", "range", "values">>]>>]]

\* Lines 211-265: the static catalog (name and required arguments).
ToolsListResponse(id_) ==
  [jsonrpc |-> "2.0", id |-> id_,
   result |-> [tools |->
     <<[name |-> "sheets.read_range",
        required |-> <<"spreadsheet_id", "range">>],
       [name |-> "sheets.write_range",
        required |-> <<"spreadsheet_id", "range", "values">>],
       [name |-> "sheets.append_row",
        required |-> <<"spreadsheet_id", "range", "values">>]>>]]

\* Mutant of MethodNotFound: the catch-all answers with another code.
MethodNotFound_InvalidRequest(id_) ==
  [jsonrpc |-> "2.0", id |-> id_,
   error |-> [code |-> -32600, message |-> <<"Invalid Request">>]]

\* Mutant of MethodNotFound: the catch-all's envelope carries no id.
MethodNotFound_NoId(id_) ==
  [jsonrpc |-> "2.0", id |-> None,
   error |-> [code |-> -32601, message |-> <<"Method not found">>]]

\* Lines 316-323: the catch-all.
MethodNotFound(id_) ==
  [jsonrpc |-> "2.0", id |-> id_,
   error |-> [code |-> -32601, message |-> <<"Method not found">>]]

\* Mutant of ToolResponse: the envelope does not echo the request's id.
ToolResponse_NoId(id_, tool, res) ==
  [jsonrpc |-> "2.0", id |-> None,
   result |-> [content |-> <<[type |-> "text", text |-> "ok"]>>]]

\* The success envelopes of the three tools, lines 280-284, 295-299, 310-314.
ToolResponse(id_, tool, res) ==
  [jsonrpc |-> "2.0", id |-> id_,
   result |-> [content |->
     IF tool = "sheets.read_range" THEN <<[type |-> "json", json |-> res]>>
     ELSE IF tool = "sheets.write_range"
       THEN <<[type |-> "text", text |-> "Sheet updated"]>>
     ELSE <<[type |-> "text", text |-> "Row appended"]>>]]

\* The keys of `args` the handler subscripts before it calls the tool
\* function: lines 275-276, 289-291, 304-306.
SubscriptedArgs(tool) ==
  IF tool = "sheets.read_range" THEN {"spreadsheet_id", "range"}
  ELSE {"spreadsheet_id", "range", "values"}

\* payload["params"].get("arguments", {})
ArgsOf(params) ==
  IF params.arguments = Absent THEN EmptyMap ELSE params.arguments

\* Lines 191-323 up to the first call that leaves the handler: what the
\* dispatcher does with a payload.  "return": it returns `response` with
\* `status`; "raise": an exception leaves the handler; "call": it enters
\* one of the three tool functions.
Dispatch(payload) ==
  LET id_ == payload.id
      notFound == [kind |-> "return", status |-> 400,
                   response |-> MethodNotFound(id_)]
      keyError == [kind |-> "raise", exc |-> "KeyError"]
  IN
  IF payload.method = "initialize"
    THEN [kind |-> "return", status |-> 200,
          response |-> InitializeResponse(id_)]
  ELSE IF payload.method = "tools/list"
    THEN [kind |-> "return", status |-> 200,
          response |-> ToolsListResponse(id_)]
  ELSE IF payload.method = "tools/call"
    THEN IF payload.params = Absent THEN keyError
         ELSE IF payload.params.name = None THEN keyError
         ELSE IF payload.params.name \in ToolNames
           THEN IF SubscriptedArgs(payload.params.name)
                     \subseteq DOMAIN ArgsOf(payload.params)
                  THEN [kind |-> "call"]
                  ELSE keyError
         ELSE notFound
  ELSE notFound

\* A request arrives at /mcp and is dispatched.
McpDispatch(payload) ==
  /\ mcp.pc = "idle"
  /\ LET d == Dispatch(payload)
         m == [IdleMcp EXCEPT !.req = payload,
                              !.user_id = get_user_id(payload)]
     IN mcp' = IF d.kind = "return"
                 THEN [m EXCEPT !.pc = "returned", !.status = d.status,
                                !.response = d.response]
               ELSE IF d.kind = "raise"
                 THEN [m EXCEPT !.pc = "raised", !.exc = d.exc]
               ELSE [m EXCEPT !.pc = "resolve"]
  /\ UNCHANGED <<file, tmp, cb, started>>

\* get_sheets_service lines 109-116: the credential of a stored record.
Credentials(rec) ==
  [token |-> rec.token, refresh_token |-> rec.refresh_token,
   token_uri |-> "https://oauth2.googleapis.com/token"]

\* Mutant of McpResolve: the tool function goes on to the remote call
\* without checking that the user has a record.
McpResolve_NoCheck ==
  /\ mcp.pc = "resolve"
  /\ LET tokens == load_tokens(file)
     IN mcp' = [mcp EXCEPT !.pc = "remote", !.consulted = TRUE,
                           !.creds =
                              IF mcp.user_id \in DOMAIN tokens
                                THEN Credentials(tokens[mcp.user_id])
                              ELSE Credentials([token |-> None,
                                                refresh_token |-> None])]
  /\ UNCHANGED <<file, tmp, cb, started>>

\* get_sheets_service, lines 105-118, called first by each tool function:
\* without a record the tool returns "AUTH_REQUIRED" and the handler the
\* authorization error.  An exception of load_tokens leaves the handler.
McpResolve ==
  /\ mcp.pc = "resolve"
  /\ LET tokens == load_tokens(file)
     IN mcp' = IF LoadRaises(file)
                 THEN [mcp EXCEPT !.pc = "raised", !.consulted = TRUE,
                                  !.exc = "UnicodeDecodeError"]
               ELSE IF mcp.user_id \notin DOMAIN tokens
                 THEN [mcp EXCEPT !.pc = "returned", !.consulted = TRUE,
                                  !.status = 200,
                                  !.response =
                                     auth_error(mcp.req.id, mcp.user_id)]
               ELSE [mcp EXCEPT !.pc = "remote", !.consulted = TRUE,
                                !.creds = Credentials(tokens[mcp.user_id])]
  /\ UNCHANGED <<file, tmp, cb, started>>

\* Mutant of RemoteCall: a write is sent as an append with parsed input.
RemoteCall_WriteAppends(tool, args, creds) ==
  IF tool = "sheets.read_range"
    THEN [api |-> "values.get", creds |-> creds,
          spreadsheetId |-> args["spreadsheet_id"], range |-> args["range"]]
  ELSE [api |-> "values.append", creds |-> creds,
        spreadsheetId |-> args["spreadsheet_id"], range |-> args["range"],
        valueInputOption |-> "USER_ENTERED",
        insertDataOption |-> "INSERT_ROWS",
        body |-> [values |-> <<args["values"]>>]]

\* The request a tool function sends to the spreadsheet service:
\* lines 126-131, 146-155, 170-180.
RemoteCall(tool, args, creds) ==
  IF tool = "sheets.read_range"
    THEN [api |-> "values.get", creds |-> creds,
          spreadsheetId |-> args["spreadsheet_id"], range |-> args["range"]]
  ELSE IF tool = "sheets.write_range"
    THEN [api |-> "values.update", creds |-> creds,
          spreadsheetId |-> args["spreadsheet_id"], range |-> args["range"],
          valueInputOption |-> "RAW", body |-> [values |-> args["values"]]]
  ELSE [api |-> "values.append", creds |-> creds,
        spreadsheetId |-> args["spreadsheet_id"], range |-> args["range"],
        valueInputOption |-> "RAW", insertDataOption |-> "INSERT_ROWS",
        body |-> [values |-> <<args["values"]>>]]

\* What a tool function returns after a successful remote call:
\* lines 133, 157, 182.
ToolResult(tool, body) ==
  IF tool = "sheets.read_range"
    THEN (IF "values" \in DOMAIN body THEN body.values ELSE <<>>)
  ELSE IF tool = "sheets.write_range" THEN "UPDATED"
  ELSE "APPENDED"

\* The access tokens the credential object can hold after .execute(): the
\* transport refreshes a credential that has a refresh token when the
\* service answers 401, and retries; the new token lives in the object
\* built at lines 109-116.
TokensAfterCall(creds) ==
  IF creds.refresh_token # None THEN AccessTokens ELSE {creds.token}

\* Mutant of McpExecute: a refreshed access token is saved to the store.
McpExecute_WriteBack ==
  /\ mcp.pc = "remote"
  /\ LET tool == mcp.req.params.name
         args == ArgsOf(mcp.req.params)
     IN \E body \in ReadBodies, t \in TokensAfterCall(mcp.creds) :
          /\ mcp' = [mcp EXCEPT
                       !.pc = "returned",
                       !.creds = [@ EXCEPT !.token = t],
                       !.calls = Append(@, RemoteCall(tool, args, mcp.creds)),
                       !.status = 200,
                       !.response = ToolResponse(mcp.req.id, tool,
                                                 ToolResult(tool, body))]
          /\ file' = [exists |-> TRUE,
                      content |->
                        Serialize(SetKey(load_tokens(file), mcp.user_id,
                                         [token |-> t,
                                          refresh_token |->
                                            mcp.creds.refresh_token]))]
  /\ UNCHANGED <<tmp, cb, started>>

\* .execute() succeeds: the tool function returns and the handler wraps the
\* result.  The credential object, refreshed or not, is dropped with the
\* request; nothing saves it.
McpExecute ==
  /\ mcp.pc = "remote"
  /\ LET tool == mcp.req.params.name
         args == ArgsOf(mcp.req.params)
     IN \E body \in ReadBodies, t \in TokensAfterCall(mcp.creds) :
          mcp' = [mcp EXCEPT
                    !.pc = "returned",
                    !.creds = [@ EXCEPT !.token = t],
                    !.calls = Append(@, RemoteCall(tool, args, mcp.creds)),
                    !.status = 200,
                    !.response = ToolResponse(mcp.req.id, tool,
                                              ToolResult(tool, body))]
  /\ UNCHANGED <<file, tmp, cb, started>>

\* .execute() raises (the service rejects the call, or the token refresh
\* fails): nothing in the tool function or the handler catches it.
McpExecuteFails ==
  /\ mcp.pc = "remote"
  /\ LET tool == mcp.req.params.name
         args == ArgsOf(mcp.req.params)
     IN mcp' = [mcp EXCEPT
                  !.pc = "raised",
                  !.calls = Append(@, RemoteCall(tool, args, mcp.creds)),
                  !.exc = "HttpError"]
  /\ UNCHANGED <<file, tmp, cb, started>>

\* ------------------------------------- main.py: google_auth and health
\* The authorization URL google_auth redirects to, lines 74-78, by the
\* parameters the code sets.
AuthorizationUrl(user_id) ==
  [access_type |-> "offline", prompt |-> "consent", state |-> user_id]

\* GET /auth/google, lines 70-78: the worker answers with a redirect to the
\* identity provider; user_id is the query parameter, "default" when absent.
GoogleAuth(q) ==
  /\ mcp.pc = "idle"
  /\ LET user_id == IF q = None THEN DefaultUser ELSE q
     IN mcp' = [IdleMcp EXCEPT !.pc = "redirected", !.user_id = user_id,
                               !.status = 307,
                               !.response =
                                  [location |-> AuthorizationUrl(user_id)]]
  /\ UNCHANGED <<file, tmp, cb, started>>

\* GET /, lines 326-328.
Health ==
  /\ mcp.pc = "idle"
  /\ mcp' = [IdleMcp EXCEPT !.pc = "alive", !.status = 200,
                            !.response = [status |-> "Sheets MCP running"]]
  /\ UNCHANGED <<file, tmp, cb, started>>

\* The response (or the failure) has been delivered; the worker takes the
\* next request.
McpNextRequest ==
  /\ mcp.pc \in {"returned", "raised", "redirected", "alive"}
  /\ mcp' = IdleMcp
  /\ UNCHANGED <<file, tmp, cb, started>>

\* ------------------------------------------------------------------ spec
\* The steps of the authorization callbacks.
NextStore ==
  \/ \E c \in CallbackIds : CbFetchFails(c)
  \/ \E c \in CallbackIds : CbLoad(c)
  \/ \E c \in CallbackIds : CbCreateTmp(c)
  \/ \E c \in CallbackIds : CbWrite(c)
  \/ \E c \in CallbackIds : CbRename(c)
  \/ \E c \in CallbackIds : CbInterrupt(c)

\* The steps of the /mcp endpoint.
NextMcp ==
  \/ \E payload \in Payloads : McpDispatch(payload)
  \/ McpResolve
  \/ McpExecute
  \/ McpExecuteFails
  \/ McpNextRequest

\* The steps of the two endpoints that neither read nor write the store.
NextPlain ==
  \/ \E q \in UserIds \cup {None} : GoogleAuth(q)
  \/ Health

Next == NextStore \/ NextMcp \/ NextPlain

\* The whole server: callbacks and /mcp requests interleaved.
Spec == Init /\ [][Next]_vars

\* The credential store alone: concurrent callbacks, from the first run on.
SpecStore == Init /\ [][NextStore]_vars

\* The records a callback can store and the mappings the callbacks can leave
\* in the token file (a saved mapping has at least the saver's key).
Records == [token : AccessTokens, refresh_token : RefreshTokens \cup {None}]
Mappings == UNION {[S -> Records] : S \in (SUBSET Keys) \ {{}}}

\* /mcp requests served over any store the callbacks can have left.
InitMcp ==
  /\ file \in {NoFile}
              \cup {[exists |-> TRUE, content |-> Serialize(tokens)] :
                      tokens \in Mappings}
  /\ tmp = [c \in CallbackIds |-> <<>>]
  /\ cb = [c \in CallbackIds |-> IdleCb]
  /\ started = 0
  /\ mcp = IdleMcp

\* The dispatcher alone, as a function of the request, the stored mapping
\* and the remote service's answer.
SpecMcp == InitMcp /\ [][NextMcp]_vars

\* A callback's load-modify-save begins while no other callback is between
\* its load and its replace.
CbLoadAlone(c) ==
  /\ \A d \in CallbackIds : cb[d].pc \notin InSave
  /\ CbLoad(c)

\* The steps of callbacks that do not overlap one another.
NextSerial ==
  \/ \E c \in CallbackIds : CbFetchFails(c)
  \/ \E c \in CallbackIds : CbLoadAlone(c)
  \/ \E c \in CallbackIds : CbCreateTmp(c)
  \/ \E c \in CallbackIds : CbWrite(c)
  \/ \E c \in CallbackIds : CbRename(c)
  \/ \E c \in CallbackIds : CbInterrupt(c)

\* Callbacks one after another, over any store earlier callbacks can have
\* left.
SpecSerial == InitMcp /\ [][NextSerial]_vars

\* The whole server when callbacks do not overlap one another; nothing but
\* the callbacks writes the token file.
SpecSerialServer == Init /\ [][NextSerial \/ NextMcp \/ NextPlain]_vars

\* save_tokens(m) is called on its own, with no other save in progress: the
\* caller enters the steps CbCreateTmp, CbWrite and CbRename with m as its
\* dict.
SaveTokens(c, m) ==
  /\ \A d \in CallbackIds : cb[d].pc \in CbAtRest
  /\ started < MaxCallbacks
  /\ cb' = [cb EXCEPT ![c] = [IdleCb EXCEPT !.pc = "create", !.tokens = m]]
  /\ started' = started + 1
  /\ UNCHANGED <<file, tmp, mcp>>

\* save_tokens(load_tokens()): the mapping saved is the one just loaded.
SaveLoaded(c) == SaveTokens(c, load_tokens(file))

\* load_tokens and save_tokens composed, over every store the callbacks can
\* have left and every mapping they can pass.
NextRoundTrip ==
  \/ \E c \in CallbackIds, m \in Mappings \cup {EmptyMap} : SaveTokens(c, m)
  \/ \E c \in CallbackIds : SaveLoaded(c)
  \/ \E c \in CallbackIds : CbCreateTmp(c)
  \/ \E c \in CallbackIds : CbWrite(c)
  \/ \E c \in CallbackIds : CbRename(c)

SpecRoundTrip == InitMcp /\ [][NextRoundTrip]_vars

\* The texts a token file can hold when something other than save_tokens
\* wrote it (a manual edit, a copy cut short, a damaged disk block): every
\* prefix of a serialized mapping, the complete text included, and texts
\* with bytes that are not UTF-8.
Prefixes(text) == {SubSeq(text, 1, n) : n \in 0..Len(text)}
FileTexts ==
  UNION {Prefixes(Serialize(tokens)) : tokens \in Mappings \cup {EmptyMap}}
UndecodableTexts ==
  {<<Undecodable>>, <<[kind |-> "open"], Undecodable, [kind |-> "close"]>>}

\* /mcp requests served over any token file, sound or damaged.
InitLoad ==
  /\ file \in {NoFile}
              \cup {[exists |-> TRUE, content |-> text] :
                      text \in FileTexts \cup UndecodableTexts}
  /\ tmp = [c \in CallbackIds |-> <<>>]
  /\ cb = [c \in CallbackIds |-> IdleCb]
  /\ started = 0
  /\ mcp = IdleMcp

\* load_tokens as the tool functions call it, over every such file.
SpecLoad == InitLoad /\ [][NextMcp]_vars

\* -------------------------------------------------------------- helpers
\* The record stored under key k of mapping m, Absent when there is none.
Rec(m, k) == IF k \in DOMAIN m THEN m[k] ELSE Absent

\* The mapping load_tokens returns in the current state.
Stored == load_tokens(file)

\* Callback c takes a step of save_tokens that is not the replace.
SaveStepBeforeRename(c) ==
  /\ cb[c].pc \in InSave
  /\ cb'[c] # cb[c] \/ tmp'[c] # tmp[c]
  /\ cb'[c].pc # "done"

\* Callback c completes save_tokens (the replace of line 45).
RenameStep(c) == cb[c].pc = "rename" /\ cb'[c].pc = "done"

\* ---------------------------------------------------------------- claims
\* C1: the token file only ever changes by being replaced, in one step, with
\* the complete serialization of the mapping passed to some save_tokens
\* call; so whatever load_tokens reads is the complete old content or the
\* complete new content, never a prefix or a mixture of two writes.
C1_AtomicReplace ==
  [][\/ file' = file
     \/ \E c \in CallbackIds :
          /\ cb[c].pc = "rename"
          /\ file' = [exists |-> TRUE, content |-> Serialize(cb[c].tokens)]
          /\ WellFormed(file'.content)
          /\ load_tokens(file') = cb[c].tokens]_vars

\* C1 witness: two concurrent writers; one has replaced the token file, the
\* other is half-way through its temporary file, and a load_tokens at this
\* point returns the first writer's complete mapping.
C1_Witness ==
  \E c, d \in CallbackIds :
    /\ cb[c].pc = "write"
    /\ Len(tmp[c]) > 0
    /\ ~WellFormed(tmp[c])
    /\ cb[d].pc = "done"
    /\ file.exists
    /\ Stored # EmptyMap
    /\ file.content = Serialize(Stored)

\* C2: every step of save_tokens before the replace, and an interruption at
\* any of them, leaves the token file as it was, so load_tokens still
\* returns the mapping stored before the save.
C2_InterruptedSaveKeepsFile ==
  [][\A c \in CallbackIds :
       SaveStepBeforeRename(c) =>
         /\ file' = file
         /\ load_tokens(file') = load_tokens(file)]_vars

\* C2 witness: a save was interrupted and the token file of an earlier save
\* still holds its complete non-empty mapping.
C2_Witness ==
  \E c \in CallbackIds :
    /\ cb[c].pc = "interrupted"
    /\ file.exists
    /\ WellFormed(file.content)
    /\ Stored # EmptyMap

\* User u has a non-empty refresh token in the store.
HasRefresh(u) == u \in DOMAIN Stored /\ Stored[u].refresh_token # None

\* The store no longer is what callback c loaded: another callback saved
\* between c's load (line 88) and now.
StoreChangedSinceLoad(c) ==
  \/ ExistingRefresh(Stored, cb[c].user_id) # cb[c].existing_refresh
  \/ \E k \in Keys \ {cb[c].user_id} : Rec(Stored, k) # Rec(cb[c].tokens, k)

\* C3 as stated: once the store holds a refresh token for u it holds one in
\* every later state, in every interleaving of callbacks and tool calls.
C3_RefreshNeverDropped ==
  [][\A u \in Keys : HasRefresh(u) => HasRefresh(u)']_vars

\* C3 amended: a step drops no user's refresh token unless it is the save of
\* a callback that loaded the store before another callback's save changed
\* it (callbacks that do not overlap never drop a refresh token).
C3_RefreshKeptWithoutOverlap ==
  [][\A u \in Keys :
       (/\ HasRefresh(u)
        /\ ~\E c \in CallbackIds : RenameStep(c) /\ StoreChangedSinceLoad(c))
       => HasRefresh(u)']_vars

\* C3 witness: a callback for a user with a stored refresh token, whose
\* exchange yielded none, has completed and the user still has one.
C3_Witness ==
  \E c \in CallbackIds :
    /\ cb[c].pc = "done"
    /\ cb[c].refresh_token = None
    /\ cb[c].existing_refresh # None
    /\ HasRefresh(cb[c].user_id)
    /\ started = MaxCallbacks

\* C4: a callback reads the user's stored refresh token r at its load, and
\* when the exchange yields access token t' and no refresh token it stores
\* exactly {token: t', refresh_token: r} for the user.
C4_AbsentRefreshFallsBack ==
  [][\A c \in CallbackIds :
       /\ (cb[c].pc \in CbAtRest /\ cb'[c].pc = "create")
            => cb'[c].existing_refresh =
                 (IF cb'[c].user_id \in DOMAIN Stored
                    THEN Stored[cb'[c].user_id].refresh_token ELSE None)
       /\ (RenameStep(c) /\ cb[c].refresh_token = None
             /\ cb[c].existing_refresh # None)
            => /\ cb[c].user_id \in DOMAIN load_tokens(file')
               /\ load_tokens(file')[cb[c].user_id] =
                    [token |-> cb[c].token,
                     refresh_token |-> cb[c].existing_refresh]]_vars

\* C4 witness: a user's record held (t, r); a callback with a different
\* access token t' and no refresh token completed; the record is (t', r).
C4_Witness ==
  \E c \in CallbackIds :
    /\ cb[c].pc = "done"
    /\ cb[c].refresh_token = None
    /\ cb[c].existing_refresh \in RefreshTokens
    /\ cb[c].user_id \in DOMAIN Stored
    /\ Stored[cb[c].user_id] = [token |-> cb[c].token,
                                refresh_token |-> cb[c].existing_refresh]

\* C6: a save installs exactly the saver's own dict (what it loaded plus its
\* own record): when another callback saved since the load, that callback's
\* record is not in the store afterwards.  No lock orders the two.
C6_SaveInstallsOwnSnapshot ==
  [][\A c \in CallbackIds :
       RenameStep(c) =>
         /\ load_tokens(file') = cb[c].tokens
         /\ \A k \in Keys \ {cb[c].user_id} :
              Rec(load_tokens(file'), k) = Rec(cb[c].tokens, k)]_vars

\* C6 witness: two callbacks for different users both completed their save,
\* and the store holds the later writer's record but no record of the other.
C6_Witness ==
  \E c1, c2 \in CallbackIds :
    /\ c1 # c2
    /\ cb[c1].pc = "done" /\ cb[c2].pc = "done"
    /\ cb[c1].user_id # cb[c2].user_id
    /\ cb[c2].user_id \in DOMAIN Stored
    /\ Stored[cb[c2].user_id].token = cb[c2].token
    /\ cb[c1].user_id \notin DOMAIN Stored

\* The /mcp worker takes a request in this step.
DispatchStep == mcp.pc = "idle" /\ mcp'.pc # "idle"

\* The user a request acts for: meta.user_id, "default" when absent.
ActingUser(req) == IF req.user_id = None THEN "default" ELSE req.user_id

\* The arguments the catalog (lines 225, 244, 260) requires of a tool.
CatalogRequired(tool) ==
  IF tool = "sheets.read_range" THEN {"spreadsheet_id", "range"}
  ELSE {"spreadsheet_id", "range", "values"}

\* The request is a tools/call of one of the three capabilities.
IsCapabilityCall(req) ==
  /\ req.method = "tools/call"
  /\ req.params # Absent
  /\ req.params.name \in ToolNames

\* The arguments a request carries.
CarriedArgs(req) ==
  IF req.params.arguments = Absent THEN {} ELSE DOMAIN req.params.arguments

\* The message names user u and carries the recovery URL for exactly u.
NamesUserAndUrl(message, u) ==
  /\ \E i \in 1..Len(message) : message[i] = u
  /\ \E i \in 1..(Len(message) - 2) :
       /\ message[i] = BASE_URL
       /\ message[i + 1] = "/auth/google?user_id="
       /\ message[i + 2] = u
       /\ i + 2 = Len(message)

\* C5: a tools/call of any of the three capabilities (with its arguments)
\* enters credential resolution, and when the acting user is not a key of
\* the store it returns, without any remote call, the error envelope with
\* code 401 whose message names that user and carries the recovery URL
\* <BASE_URL>/auth/google?user_id=<that user>.
C5_UnknownUserGetsAuthError ==
  [][/\ (DispatchStep /\ IsCapabilityCall(mcp'.req)
           /\ CatalogRequired(mcp'.req.params.name)
                \subseteq CarriedArgs(mcp'.req))
          => mcp'.pc = "resolve"
     /\ (mcp.pc = "resolve" /\ mcp'.pc # "resolve"
           /\ ActingUser(mcp.req) \notin DOMAIN Stored)
          => /\ mcp'.pc = "returned"
             /\ mcp'.calls = <<>>
             /\ mcp'.response.id = mcp.req.id
             /\ "error" \in DOMAIN mcp'.response
             /\ "result" \notin DOMAIN mcp'.response
             /\ mcp'.response.error.code = 401
             /\ NamesUserAndUrl(mcp'.response.error.message,
                                ActingUser(mcp.req))]_vars

\* C5 witness: the store has a record for another user, and a tools/call for
\* user u1, who has none, returned the 401 envelope.
C5_Witness ==
  /\ mcp.pc = "returned"
  /\ mcp.req.method = "tools/call"
  /\ mcp.req.user_id = "u1"
  /\ "u1" \notin DOMAIN Stored
  /\ Stored # EmptyMap
  /\ "error" \in DOMAIN mcp.response
  /\ mcp.response.error.code = 401

\* A well-formed envelope answering request req.
IsEnvelopeFor(response, req) ==
  /\ response.jsonrpc = "2.0"
  /\ response.id = req.id
  /\ ("result" \in DOMAIN response) # ("error" \in DOMAIN response)
  /\ "error" \in DOMAIN response =>
       {"code", "message"} \subseteq DOMAIN response.error

\* C7: every response the handler returns carries jsonrpc "2.0", the id of
\* the request it answers, and exactly one of result and error (an error
\* with code and message).
C7_UniformEnvelope ==
  mcp.pc = "returned" => IsEnvelopeFor(mcp.response, mcp.req)

\* C7 witness: a successful tools/call has returned its result envelope to a
\* request that carried an id.
C7_Witness ==
  /\ mcp.pc = "returned"
  /\ mcp.req.method = "tools/call"
  /\ mcp.req.id # None
  /\ "result" \in DOMAIN mcp.response
  /\ Len(mcp.calls) = 1

\* C8: a request whose method is none of initialize, tools/list, tools/call
\* is answered at once with the error envelope of code -32601 and the
\* request's id; the store is neither read nor written, no remote call is
\* made, and the handler returns (it does not raise), so the worker goes on
\* to the next request.
C8_UnknownMethodNotFound ==
  [][(DispatchStep
        /\ mcp'.req.method \notin {"initialize", "tools/list", "tools/call"})
       => /\ mcp'.pc = "returned"
          /\ IsEnvelopeFor(mcp'.response, mcp'.req)
          /\ "error" \in DOMAIN mcp'.response
          /\ mcp'.response.error.code = -32601
          /\ ~mcp'.consulted
          /\ mcp'.calls = <<>>
          /\ file' = file]_vars

\* C8 witness: a request with an unknown method and an id was answered
\* -32601 while the store held credentials.
C8_Witness ==
  /\ mcp.pc = "returned"
  /\ mcp.req.method = "unknown"
  /\ mcp.req.id # None
  /\ mcp.response.error.code = -32601
  /\ Stored # EmptyMap

\* C9: no request ends with an exception leaving the handler.
C9_NothingEscapes == mcp.pc # "raised"

\* C10: a tools/call of a capability that lacks one of the arguments the
\* catalog requires is answered, before any remote call, with an error
\* envelope whose code is not 401.
C10_MissingArgumentRejected ==
  [][(DispatchStep /\ IsCapabilityCall(mcp'.req)
        /\ ~(CatalogRequired(mcp'.req.params.name)
               \subseteq CarriedArgs(mcp'.req)))
       => /\ mcp'.pc = "returned"
          /\ mcp'.calls = <<>>
          /\ "error" \in DOMAIN mcp'.response
          /\ mcp'.response.error.code # 401]_vars

\* The names of the tools a tools/list result lists.
CatalogNames(result) == {result.tools[i].name : i \in 1..Len(result.tools)}

\* C11: initialize and tools/list are answered at the dispatch, whatever the
\* store holds and whoever the user is, with a success envelope (initialize:
\* the server's name and version; tools/list: the catalog of exactly the
\* three capabilities, each with the arguments it requires); the store is
\* not consulted, no remote call is made and the token file is unchanged.
C11_InitializeAndListAreStatic ==
  [][(DispatchStep /\ mcp'.req.method \in {"initialize", "tools/list"})
       => /\ mcp'.pc = "returned"
          /\ mcp'.status = 200
          /\ IsEnvelopeFor(mcp'.response, mcp'.req)
          /\ "result" \in DOMAIN mcp'.response
          /\ mcp'.req.method = "initialize" =>
               /\ mcp'.response.result.serverInfo.name
                    = "Multi-User Google Sheets MCP"
               /\ mcp'.response.result.serverInfo.version = "0.1.0"
          /\ mcp'.req.method = "tools/list" =>
               /\ Len(mcp'.response.result.tools) = 3
               /\ CatalogNames(mcp'.response.result) = ToolNames
               /\ \A i \in 1..Len(mcp'.response.result.tools) :
                    LET t == mcp'.response.result.tools[i]
                    IN {t.required[j] : j \in 1..Len(t.required)}
                         = SubscriptedArgs(t.name)
          /\ ~mcp'.consulted
          /\ mcp'.calls = <<>>
          /\ file' = file
          /\ load_tokens(file') = load_tokens(file)]_vars

\* C11 witness: over an empty store (no token file), tools/list for user u1
\* was answered with the catalog.
C11_Witness ==
  /\ mcp.pc = "returned"
  /\ mcp.req.method = "tools/list"
  /\ mcp.req.user_id = "u1"
  /\ ~file.exists
  /\ "result" \in DOMAIN mcp.response
  /\ Len(mcp.response.result.tools) = 3

\* Callback c's code exchange fails in this step.
FetchFailsStep(c) ==
  /\ cb[c].pc \in CbAtRest
  /\ cb'[c].pc = "raised"
  /\ started' # started

\* The worker of /mcp, /auth/google and / takes a step.
PlainWorkerStep == mcp' # mcp

\* C12: the token file, and so the stored mapping, changes only in the
\* replace that ends the save of a callback whose code exchange succeeded.
\* Every step of a /mcp request (whatever its method and outcome), of the
\* authorization-initiation endpoint and of the health endpoint, and a
\* callback's failed code exchange, leave the file and the mapping as they
\* were; a tool call that refreshed its access token leaves them too.
C12_OnlyCallbackChangesStore ==
  [][/\ (file' # file \/ load_tokens(file') # load_tokens(file))
          => \E c \in CallbackIds :
               /\ RenameStep(c)
               /\ cb[c].token \in AccessTokens
     /\ PlainWorkerStep
          => file' = file /\ load_tokens(file') = load_tokens(file)
     /\ \A c \in CallbackIds :
          FetchFailsStep(c)
            => file' = file /\ load_tokens(file') = load_tokens(file)]_vars

\* C12 witness: a tool call for a user with a stored record returned after
\* its credential was refreshed to another access token, and the store
\* still holds the access token the call started with.
C12_Witness ==
  /\ mcp.pc = "returned"
  /\ Len(mcp.calls) = 1
  /\ mcp.creds.token # mcp.calls[1].creds.token
  /\ mcp.user_id \in DOMAIN Stored
  /\ Stored[mcp.user_id].token = mcp.calls[1].creds.token

\* The token file is absent or its content is not a well-formed mapping.
BadFile == ~file.exists \/ ~WellFormed(file.content)

\* C13: when the token file is absent or not well-formed, the load_tokens of
\* a tool call does not fail: it returns the empty mapping, so the call is
\* answered with the authorization error, whoever the user is.
C13_BadFileLoadsEmpty ==
  [][(mcp.pc = "resolve" /\ mcp'.pc # "resolve" /\ BadFile)
       => /\ load_tokens(file) = EmptyMap
          /\ mcp'.pc = "returned"
          /\ mcp'.calls = <<>>
          /\ "error" \in DOMAIN mcp'.response
          /\ mcp'.response.error.code = 401]_vars

\* C13 for text files only: the same, when the content of an existing file
\* is UTF-8 text.
C13_BadTextFileLoadsEmpty ==
  [][(mcp.pc = "resolve" /\ mcp'.pc # "resolve" /\ BadFile
        /\ Decodable(file.content))
       => /\ load_tokens(file) = EmptyMap
          /\ mcp'.pc = "returned"
          /\ mcp'.calls = <<>>
          /\ "error" \in DOMAIN mcp'.response
          /\ mcp'.response.error.code = 401]_vars

\* C14: when a save_tokens(m) completes, load_tokens returns m; and when m
\* is what load_tokens returned before the save (save_tokens(load_tokens())),
\* load_tokens returns the same mapping before and after.
C14_RoundTrip ==
  [][\A c \in CallbackIds :
       RenameStep(c) =>
         /\ load_tokens(file') = cb[c].tokens
         /\ cb[c].tokens = load_tokens(file)
              => load_tokens(file') = load_tokens(file)]_vars

\* C14 witness: save_tokens(load_tokens()) has completed over a store of two
\* records, one of them without a refresh token, and the store holds the
\* same two records.
C14_Witness ==
  \E c \in CallbackIds :
    /\ cb[c].pc = "done"
    /\ cb[c].user_id = None
    /\ started = 1
    /\ DOMAIN Stored = Keys
    /\ Stored["default"].refresh_token = None
    /\ Stored["u1"].refresh_token # None
    /\ file.content = Serialize(Stored)

\* The request is a tools/call of capability `tool` carrying the arguments
\* the capability requires.
IsCallOf(req, tool) ==
  /\ IsCapabilityCall(req)
  /\ req.params.name = tool
  /\ CatalogRequired(tool) \subseteq CarriedArgs(req)

\* C15: a tools/call of sheets.write_range with spreadsheet_id S, range R
\* and values V, for a user with a stored record, enters the remote call
\* and makes exactly one remote request, the update of range R of
\* spreadsheet S with body values V and valueInputOption RAW; when the
\* service accepts it, the handler returns the success envelope with the
\* request's id.
C15_WriteRangeUpdatesOnce ==
  [][/\ (mcp.pc = "resolve" /\ mcp'.pc # "resolve"
           /\ IsCallOf(mcp.req, "sheets.write_range")
           /\ ActingUser(mcp.req) \in DOMAIN Stored)
          => mcp'.pc = "remote" /\ mcp'.calls = <<>>
     /\ (mcp.pc = "remote" /\ mcp'.pc # "remote"
           /\ IsCallOf(mcp.req, "sheets.write_range"))
          => /\ Len(mcp'.calls) = 1
             /\ mcp'.calls[1].api = "values.update"
             /\ mcp'.calls[1].spreadsheetId
                  = mcp.req.params.arguments["spreadsheet_id"]
             /\ mcp'.calls[1].range = mcp.req.params.arguments["range"]
             /\ mcp'.calls[1].body
                  = [values |-> mcp.req.params.arguments["values"]]
             /\ mcp'.calls[1].valueInputOption = "RAW"
             /\ "insertDataOption" \notin DOMAIN mcp'.calls[1]
             /\ mcp'.pc = "returned" =>
                  /\ mcp'.status = 200
                  /\ IsEnvelopeFor(mcp'.response, mcp.req)
                  /\ "result" \in DOMAIN mcp'.response]_vars

\* C15 witness: a sheets.write_range call with an id, for user u1 who has a
\* stored record, returned its success envelope after one update.
C15_Witness ==
  /\ mcp.pc = "returned"
  /\ IsCallOf(mcp.req, "sheets.write_range")
  /\ mcp.req.user_id = "u1"
  /\ mcp.req.id # None
  /\ "u1" \in DOMAIN Stored
  /\ Len(mcp.calls) = 1
  /\ mcp.calls[1].api = "values.update"
  /\ "result" \in DOMAIN mcp.response

\* C16: a tools/call of a capability makes no remote request at its
\* dispatch; a remote request is only ever made by a call that has consulted
\* the store and found a record for its acting user, and is the call's
\* first; and a call whose acting user has no record ends at the
\* resolution, with no remote request made.
C16_ResolveBeforeRemote ==
  [][/\ (DispatchStep /\ IsCapabilityCall(mcp'.req))
          => /\ mcp'.calls = <<>>
             /\ ~mcp'.consulted
             /\ mcp'.pc \in {"resolve", "raised"}
     /\ Len(mcp'.calls) > Len(mcp.calls)
          => /\ mcp.pc = "remote"
             /\ mcp.consulted
             /\ mcp.calls = <<>>
             /\ ActingUser(mcp.req) \in DOMAIN Stored
             /\ mcp.creds # Absent
     /\ (mcp.pc = "resolve" /\ mcp'.pc # "resolve")
          => /\ mcp'.consulted
             /\ mcp'.calls = <<>>
             /\ ActingUser(mcp.req) \notin DOMAIN Stored
                  => mcp'.pc = "returned"
     /\ (mcp.pc = "returned" /\ mcp' # mcp) => mcp' = IdleMcp]_vars

\* C16 witness: a sheets.append_row call has consulted the store, found the
\* acting user's record, and has not made its remote request yet.
C16_Witness ==
  /\ mcp.pc = "remote"
  /\ IsCallOf(mcp.req, "sheets.append_row")
  /\ mcp.consulted
  /\ mcp.calls = <<>>
  /\ ActingUser(mcp.req) \in DOMAIN Stored

\* The credential that the record of user u in mapping m dictates: its
\* access token and refresh token with the fixed token endpoint, none when
\* u has no record.
CredentialFor(m, u) ==
  IF u \in DOMAIN m
    THEN [token |-> m[u].token, refresh_token |-> m[u].refresh_token,
          token_uri |-> "https://oauth2.googleapis.com/token"]
  ELSE Absent

\* C17: the credential a tools/call resolves, and sends its remote request
\* with, is the one dictated by the record stored under the request's
\* meta.user_id ("default" when absent): for every mapping that agrees with
\* the store on that user's record, whatever its other records, the
\* credential is the one that mapping dictates.
C17_CredentialOfActingUserOnly ==
  [][/\ (mcp.pc = "resolve" /\ mcp'.pc # "resolve")
          => \A m \in Mappings \cup {EmptyMap} :
               Rec(m, ActingUser(mcp.req)) = Rec(Stored, ActingUser(mcp.req))
                 => mcp'.creds = CredentialFor(m, ActingUser(mcp.req))
     /\ Len(mcp'.calls) > Len(mcp.calls)
          => \A m \in Mappings \cup {EmptyMap} :
               Rec(m, ActingUser(mcp.req)) = Rec(Stored, ActingUser(mcp.req))
                 => mcp'.calls[Len(mcp'.calls)].creds
                      = CredentialFor(m, ActingUser(mcp.req))]_vars

\* C17 witness: the store holds different records for "default" and u1, and
\* a call for u1 made its remote request with u1's tokens.
C17_Witness ==
  /\ Len(mcp.calls) = 1
  /\ mcp.req.user_id = "u1"
  /\ DOMAIN Stored = Keys
  /\ Stored["default"].token # Stored["u1"].token
  /\ Stored["default"].refresh_token # Stored["u1"].refresh_token
  /\ mcp.calls[1].creds.token = Stored["u1"].token
  /\ mcp.calls[1].creds.refresh_token = Stored["u1"].refresh_token

\* C18: when callbacks do not overlap, the save that ends a callback for
\* user u leaves every other user's record (or absence of a record) exactly
\* as it was, and u's record holds the access token of the callback's
\* exchange.
C18_SerialCallbackChangesOneRecord ==
  [][\A c \in CallbackIds :
       RenameStep(c) =>
         /\ \A k \in Keys \ {cb[c].user_id} :
              Rec(load_tokens(file'), k) = Rec(load_tokens(file), k)
         /\ cb[c].user_id \in DOMAIN load_tokens(file')
         /\ load_tokens(file')[cb[c].user_id].token = cb[c].token]_vars

\* C18 witness: the store held a record for "default"; a callback for u1
\* completed; the store holds both, u1's with the callback's access token.
C18_Witness ==
  \E c \in CallbackIds :
    /\ cb[c].pc = "done"
    /\ cb[c].user_id = "u1"
    /\ started = 1
    /\ DOMAIN Stored = Keys
    /\ Stored["u1"].token = cb[c].token
    /\ Stored["default"].token # cb[c].token

\* C19: when callbacks do not overlap and only they write the token file:
\* /auth/google passes the user's id ("default" when absent) as the OAuth
\* state; the save that ends a callback for user u leaves a record for u in
\* the store; no step removes a user's record; and a tools/call whose acting
\* user has a record resolves a credential and goes on to the remote call,
\* so it does not return the authorization error.  Hence every tools/call
\* for u after a completed callback for u is served with u's credential.
C19_RecoveryCompletes ==
  [][/\ (mcp.pc = "idle" /\ mcp'.pc = "redirected")
          => /\ mcp'.user_id \in Keys
             /\ mcp'.response.location.state = mcp'.user_id
     /\ \A c \in CallbackIds :
          RenameStep(c) =>
            /\ cb[c].user_id \in Keys
            /\ cb[c].user_id \in DOMAIN load_tokens(file')
     /\ \A u \in Keys :
          u \in DOMAIN load_tokens(file) => u \in DOMAIN load_tokens(file')
     /\ (mcp.pc = "resolve" /\ mcp'.pc # "resolve"
           /\ ActingUser(mcp.req) \in DOMAIN Stored)
          => /\ mcp'.pc = "remote"
             /\ mcp'.creds = CredentialFor(Stored, ActingUser(mcp.req))
     /\ (mcp.pc = "remote" /\ mcp'.pc = "returned")
          => /\ "result" \in DOMAIN mcp'.response
             /\ "error" \notin DOMAIN mcp'.response]_vars

\* C19 witness: a callback for u1 has completed on a server that started
\* without a token file, and a later tools/call for u1 returned a result
\* after its remote call.
C19_Witness ==
  \E c \in CallbackIds :
    /\ cb[c].pc = "done"
    /\ cb[c].user_id = "u1"
    /\ mcp.pc = "returned"
    /\ IsCapabilityCall(mcp.req)
    /\ mcp.req.user_id = "u1"
    /\ Len(mcp.calls) = 1
    /\ mcp.calls[1].creds.token = cb[c].token
    /\ "result" \in DOMAIN mcp.response

\* The request is a tools/call whose params name a tool that is none of the
\* three capabilities.
NamesUnknownTool(req) ==
  /\ req.method = "tools/call"
  /\ req.params # Absent
  /\ req.params.name # None
  /\ req.params.name \notin
       {"sheets.read_range", "sheets.write_range", "sheets.append_row"}

\* C20: a tools/call whose params name an unknown tool is answered at the
\* dispatch by the catch-all: the error envelope with code -32601, message
\* "Method not found" and the request's id, with HTTP status 400, whoever
\* the user is and whatever the store holds; the store is not consulted and
\* no remote call is made.
C20_UnknownToolNotFound ==
  [][(DispatchStep /\ NamesUnknownTool(mcp'.req))
       => /\ mcp'.pc = "returned"
          /\ mcp'.status = 400
          /\ IsEnvelopeFor(mcp'.response, mcp'.req)
          /\ "error" \in DOMAIN mcp'.response
          /\ mcp'.response.error.code = -32601
          /\ mcp'.response.error.message = <<"Method not found">>
          /\ ~mcp'.consulted
          /\ mcp'.creds = Absent
          /\ mcp'.calls = <<>>
          /\ file' = file]_vars

\* C20 witness: a tools/call of an unknown tool, with an id and arguments,
\* for user u1 who has a stored record, was answered -32601.
C20_Witness ==
  /\ mcp.pc = "returned"
  /\ NamesUnknownTool(mcp.req)
  /\ mcp.req.params.arguments # Absent
  /\ mcp.req.id # None
  /\ mcp.req.user_id = "u1"
  /\ "u1" \in DOMAIN Stored
  /\ mcp.response.error.code = -32601
  /\ ~mcp.consulted

====
